---- MODULE Spec2Model ----
(***************************************************************************)
(* Part tree of ray-optics: the grouping pass that turns a sequential      *)
(* model into elements (rayoptics/elem/parttree.py), the restore / update  *)
(* synchronisation of node names and referents, and the tree queries.      *)
(*                                                                         *)
(* Python indices are 0-based and are kept as they are in names and in     *)
(* the loop index; TLA+ sequences are 1-based, so list[k] is seq[k+1].     *)
(***************************************************************************)
EXTENDS Integers, Sequences, FiniteSets, TLC

\* ------------------------------------------------------------------ bounds
MaxIfcs == 5
MaxThin == 1
MaxSyncIfcs == 5
MaxAttachIfcs == 4
MaxStop == 1
MaxPasses == 2
MaxAttach == 1
MaxQueryIfcs == 4
MaxRenameIfcs == 4
MaxWvls == 4

\* --------------------------------------------------------------- utilities
\* Python's None where an integer or a node handle is expected
None == -1

Range(s) == {s[k] : k \in 1..Len(s)}

Min(S) == CHOOSE x \in S : \A y \in S : x <= y

Max(S) == CHOOSE x \in S : \A y \in S : x >= y

Remove(s, x) == SelectSeq(s, LAMBDA y : y # x)

\* list.index(x): position (0-based) of the first entry equal to x,
\* None when list.index raises ValueError
IndexOf(s, x) ==
    IF \E k \in 1..Len(s) : s[k] = x
    THEN Min({k \in 1..Len(s) : s[k] = x}) - 1
    ELSE None

\* ------------------------------------------------- strings used as names
\* A name is the tuple of its characters.
Digits == <<"0", "1", "2", "3", "4", "5", "6", "7", "8", "9">>

IsDigit(c) == \E d \in 1..10 : Digits[d] = c

DigitVal(c) == (CHOOSE d \in 1..10 : Digits[d] = c) - 1

\* str(n) for 0 <= n < 100
Str(n) ==
    IF n < 10 THEN <<Digits[n + 1]>>
    ELSE <<Digits[(n \div 10) + 1], Digits[(n % 10) + 1]>>

\* int(s); None when int(s) raises ValueError
RECURSIVE IntOf(_)
IntOf(s) ==
    IF s = <<>> \/ \E k \in 1..Len(s) : ~IsDigit(s[k]) THEN None
    ELSE IF Len(s) = 1 THEN DigitVal(s[1])
    ELSE 10 * IntOf(SubSeq(s, 1, Len(s) - 1)) + DigitVal(s[Len(s)])

\* f'{prefix}{n}'
Fmt(prefix, n) == prefix \o Str(n)

\* name[:k]
Prefix(name, k) == SubSeq(name, 1, IF k < Len(name) THEN k ELSE Len(name))

\* name[1:]
Rest(name) == IF name = <<>> THEN <<>> ELSE Tail(name)

\* -------------------------------------------------------------------- tags
\* A tag string '#a#b' is the tuple <<"a", "b">> of its markers, which is
\* also what tag.split('#')[1:] yields.
TagSplit(tag) == tag

\* t in m for two markers: Python substring test
SubstrOf(t, m) ==
    \/ t = m
    \/ <<t, m>> \in {<<"ifc", "dummyifc">>, <<"gap", "airgap">>,
                     <<"lens", "thinlens">>}

\* the loop `for t in tags: if t in node.tag`
TagHit(tags, nodetag) ==
    \E a \in 1..Len(tags) : \E b \in 1..Len(nodetag) :
        SubstrOf(tags[a], nodetag[b])

\* -------------------------------------------------------------- referents
NoId == [t |-> "none", k |-> 0]

TreeId == [t |-> "tree", k |-> 0]

Ifc(k) == [t |-> "ifc", k |-> k]

Gap(k) == [t |-> "gap", k |-> k]

Profile(k) == [t |-> "profile", k |-> k]

Ele(k) == [t |-> "ele", k |-> k]

\* ---------------------------------------------------------- sequence model
\* path(): one segment per interface, the gap being the one that follows it
\* (None at the last interface)
Path(sm) ==
    [k \in 1..Len(sm.ifcs) |->
        [ifc |-> sm.ifcs[k],
         g |-> IF k <= Len(sm.gaps) THEN sm.gaps[k] ELSE None]]

\* g.medium.name().lower() == 'air'
IsAir(sm, g) == g \in sm.air

\* ------------------------------------------------------------------- tree
\* The tree is a map from node handles to nodes; a node holds its ordered
\* children. A fragment under construction lives in the same map, unattached.
RootId == 0

NoNode == None

RootName == <<"r", "o", "o", "t">>

EmptyTree ==
    (RootId :> [name |-> RootName, tag |-> <<"group", "root">>,
                id |-> TreeId, children |-> <<>>])

ParentOf(t, n) ==
    IF \E p \in DOMAIN t : n \in Range(t[p].children)
    THEN CHOOSE p \in DOMAIN t : n \in Range(t[p].children)
    ELSE NoNode

\* PreOrderIter(n): the nodes below and including n, each before its children,
\* the children in order; todo holds the nodes still to visit
RECURSIVE PreOrderFrom(_, _)
PreOrderFrom(t, todo) ==
    IF todo = <<>> THEN <<>>
    ELSE <<Head(todo)>> \o PreOrderFrom(t, t[Head(todo)].children \o Tail(todo))

PreOrderIter(t, n) == PreOrderFrom(t, <<n>>)

\* node.leaves
Leaves(t, n) == SelectSeq(PreOrderIter(t, n), LAMBDA x : t[x].children = <<>>)

Fresh(t) == Max(DOMAIN t) + 1

\* Node(name, id=, tag=, parent=)
NewNode(t, name, tag, id, parent) ==
    LET n == Fresh(t)
        rec == [name |-> name, tag |-> tag, id |-> id, children |-> <<>>]
    IN [x \in DOMAIN t \cup {n} |->
            IF x = n THEN rec
            ELSE IF x = parent THEN [t[x] EXCEPT !.children = Append(@, n)]
            ELSE t[x]]

\* node.parent = None; the detached subtree is no longer referenced
DetachNode(t, n) ==
    LET p == ParentOf(t, n)
        sub == Range(PreOrderIter(t, n))
    IN IF p = NoNode THEN t
       ELSE [x \in DOMAIN t \ sub |->
                IF x = p THEN [t[x] EXCEPT !.children = Remove(@, n)]
                ELSE t[x]]

\* node.parent = p for a node p of the tree
SetParent(t, n, p) ==
    LET old == ParentOf(t, n)
    IN IF old = p THEN t
       ELSE [x \in DOMAIN t |->
                IF x = old THEN [t[x] EXCEPT !.children = Remove(@, n)]
                ELSE IF x = p THEN [t[x] EXCEPT !.children = Append(@, n)]
                ELSE t[x]]

\* find_by_attr(start, name='id', value=obj)
FindById(t, start, obj) ==
    LET it == PreOrderIter(t, start)
        hits == {k \in 1..Len(it) : t[it[k]].id = obj}
    IN IF hits = {} THEN NoNode ELSE it[Min(hits)]

\* find_by_attr(start, name='name', value=nm)
FindByName(t, start, nm) ==
    LET it == PreOrderIter(t, start)
        hits == {k \in 1..Len(it) : t[it[k]].name = nm}
    IN IF hits = {} THEN NoNode ELSE it[Min(hits)]

\* PartTree.node
node(t, obj) == FindById(t, RootId, obj)

\* the nodes reachable from the root
Nodes(t) == Range(PreOrderIter(t, RootId))

\* ---------------------------------------------------------------- elements
\* An element of the element model: cls, label, the interfaces it wraps with
\* their sequence indices at construction, the gaps it wraps, and eid, its
\* identity (its position in ele_model.elements once added).
LabelFormat(cls) ==
    CASE cls = "Element" -> <<"E">>
      [] cls = "CementedElement" -> <<"C", "E">>
      [] cls = "Mirror" -> <<"M">>
      [] cls = "ThinElement" -> <<"T", "L">>
      [] cls = "DummyInterface" -> <<"D">>
      [] cls = "AirGap" -> <<"A", "G">>

DefaultTag(cls) ==
    CASE cls = "Element" -> <<"element", "lens">>
      [] cls = "CementedElement" -> <<"element", "cemented">>
      [] cls = "Mirror" -> <<"element", "mirror">>
      [] cls = "ThinElement" -> <<"element", "thinlens">>
      [] cls = "DummyInterface" -> <<"dummyifc">>
      [] cls = "AirGap" -> <<"airgap">>

MkElement(cls, ifcs, idxs, gaps, eid) ==
    [cls |-> cls, label |-> <<>>, ifcs |-> ifcs, idxs |-> idxs,
     gaps |-> gaps, eid |-> eid]

\* e.interface_list()
interface_list(e) == e.ifcs

\* e.ref_ifc of a DummyInterface, e.intrfc of a ThinElement
ref_ifc(e) == e.ifcs[1]

\* The profile branches of a fragment: p<k> holding interface k of the
\* element, followed by the gap behind that interface when there is one.
RECURSIVE ProfileBranches(_, _, _, _)
ProfileBranches(t, en, e, k) ==
    IF k > Len(e.ifcs) THEN t
    ELSE LET pk == Fresh(t)
             t1 == NewNode(t, Fmt(<<"p">>, k), <<"profile">>,
                           Profile(e.ifcs[k]), en)
             t2 == NewNode(t1, Fmt(<<"i">>, e.idxs[k]), <<"ifc">>,
                           Ifc(e.ifcs[k]), pk)
             t3 == IF k <= Len(e.gaps)
                   THEN NewNode(t2, Fmt(<<"g">>, e.idxs[k]), <<"gap">>,
                                Gap(e.gaps[k]), en)
                   ELSE t2
         IN ProfileBranches(t3, en, e, k + 1)

\* e.tree(tag=tag): the fragment of element e, built unattached in t; its
\* root is the node Fresh(t)
EleTree(t, e, tag) ==
    LET en == Fresh(t)
        t0 == NewNode(t, LabelFormat(e.cls), DefaultTag(e.cls) \o tag,
                      Ele(e.eid), NoNode)
    IN CASE e.cls \in {"Element", "CementedElement", "Mirror"} ->
                ProfileBranches(t0, en, e, 1)
         [] e.cls = "ThinElement" ->
                NewNode(t0, Fmt(<<"t", "l">>, e.idxs[1]), <<"ifc">>,
                        Ifc(e.ifcs[1]), en)
         [] e.cls = "DummyInterface" ->
                NewNode(t0, Fmt(<<"d", "i">>, e.idxs[1]), <<"ifc">>,
                        Ifc(e.ifcs[1]), en)
         [] e.cls = "AirGap" ->
                NewNode(t0, Fmt(<<"g">>, e.idxs[1]), <<"gap">>,
                        Gap(e.gaps[1]), en)

\* -------------------------------------------------------------- PartTree
\* mutant of DetachDups: no node is detached
DetachDups_none(t, leaves) == t

\* the loop of add_element_to_tree over the fragment's leaves
RECURSIVE DetachDups(_, _)
DetachDups(t, leaves) ==
    IF leaves = <<>> THEN t
    ELSE LET dup_node == node(t, t[Head(leaves)].id)
         IN DetachDups(IF dup_node # NoNode THEN DetachNode(t, dup_node)
                       ELSE t,
                       Tail(leaves))

\* mutant of add_element_to_tree: the fragment is placed under root without
\* looking for nodes that already reference its leaves' referents
add_element_to_tree_keep_dups(t, e, tag) ==
    SetParent([EleTree(t, e, tag) EXCEPT ![Fresh(t)].name = e.label],
              Fresh(t), RootId)

\* PartTree.add_element_to_tree; the new node e_node is Fresh(t)
add_element_to_tree(t, e, tag) ==
    LET e_node == Fresh(t)
        t0 == EleTree(t, e, tag)
        t1 == [t0 EXCEPT ![e_node].name = e.label]
        t2 == DetachDups(t1, Leaves(t1, e_node))
    IN SetParent(t2, e_node, RootId)

\* PartTree.init_from_sequence, from index i on
RECURSIVE InitFrom(_, _, _)
InitFrom(t, sm, i) ==
    IF i > Len(sm.ifcs) - 2 THEN t
    ELSE LET t1 == NewNode(t, Fmt(<<"i">>, i), <<"ifc">>,
                           Ifc(sm.ifcs[i + 1]), RootId)
             t2 == NewNode(t1, Fmt(<<"g">>, i), <<"gap">>,
                           Gap(sm.gaps[i + 1]), RootId)
         IN InitFrom(t2, sm, i + 1)

\* mutant of init_from_sequence: the loop starts at the object surface
init_from_sequence_from_object(t, sm) == InitFrom(t, sm, 0)

init_from_sequence(t, sm) == InitFrom(t, sm, 1)

\* PartTree.parent_node; tag is the filter
RECURSIVE Climb(_, _, _)
Climb(t, n, tags) ==
    IF n = NoNode THEN NoNode
    ELSE IF TagHit(tags, t[n].tag) THEN n
    ELSE Climb(t, ParentOf(t, n), tags)

parent_node(t, obj, tag) ==
    LET leaf_node == node(t, obj)
    IN Climb(t, IF leaf_node # NoNode THEN ParentOf(t, leaf_node) ELSE NoNode,
             TagSplit(tag))

\* PartTree.nodes_with_tag: PreOrderIter with filter_=tag_filter(tags)
nodes_with_tag(t, tag) ==
    LET filter_tagged_node(n) == TagHit(TagSplit(tag), t[n].tag)
    IN SelectSeq(PreOrderIter(t, RootId), filter_tagged_node)

\* ---------------------------------------------------------- grouping pass
\* The state the pass works on: pt the part tree, em ele_model.elements,
\* ne num_elements, eles the pending list, br buried_reflector, err set when
\* a statement raised.
Seg(i, ifc, g) == [i |-> i, ifc |-> ifc, g |-> g]

\* e.label = ...; part_tree.add_element_to_tree(e, tag); ele_model.add_element(e)
AddPart(S, e0, label, tag) ==
    LET e == [e0 EXCEPT !.label = label, !.eid = Len(S.em) + 1]
    IN [S EXCEPT !.pt = add_element_to_tree(S.pt, e, tag),
                 !.em = Append(S.em, e)]

\* n.parent = p where n, p come from lookups that may return None
Reparent(t, n, p) == IF p = NoNode THEN DetachNode(t, n) ELSE SetParent(t, n, p)

AirGapOf(g, i) == MkElement("AirGap", <<>>, <<i>>, <<g>>, 0)

\* the tail of both branches: "add an AirGap"
AddAirGap(S, g, i) == AddPart(S, AirGapOf(g, i), Fmt(LabelFormat("AirGap"), i), <<>>)

\* mutant of process_airgap: num_ele is not incremented for a Mirror
process_airgap_no_count(S, sm, i, g, s, add_ele) ==
    AddAirGap(
        IF sm.interact_mode[s] = "reflect" /\ add_ele
        THEN AddPart(S, MkElement("Mirror", <<s>>, <<i>>, <<>>, 0),
                     Fmt(LabelFormat("Mirror"), S.ne + 1), <<>>)
        ELSE IF s \in sm.thinlens /\ add_ele
        THEN AddPart([S EXCEPT !.ne = @ + 1],
                     MkElement("ThinElement", <<s>>, <<i>>, <<>>, 0),
                     Fmt(LabelFormat("ThinElement"), S.ne + 1), <<>>)
        ELSE IF sm.interact_mode[s] = "transmit"
                /\ (i = 0 \/ IsAir(sm, sm.gaps[i]))
        THEN AddPart(S, MkElement("DummyInterface", <<s>>, <<i>>, <<>>, 0),
                     IF i = 0 THEN <<"O", "b", "j", "e", "c", "t">>
                     ELSE IF sm.stop_surface = i THEN <<"S", "t", "o", "p">>
                     ELSE Fmt(LabelFormat("DummyInterface"), i),
                     IF i = 0 THEN <<"object">>
                     ELSE IF sm.stop_surface = i THEN <<"stop">>
                     ELSE <<>>)
        ELSE S,
        g, i)

\* mutant of process_airgap: the thin-lens test comes before the reflect test
process_airgap_thin_first(S, sm, i, g, s, add_ele) ==
    AddAirGap(
        IF s \in sm.thinlens /\ add_ele
        THEN AddPart([S EXCEPT !.ne = @ + 1],
                     MkElement("ThinElement", <<s>>, <<i>>, <<>>, 0),
                     Fmt(LabelFormat("ThinElement"), S.ne + 1), <<>>)
        ELSE IF sm.interact_mode[s] = "reflect" /\ add_ele
        THEN AddPart([S EXCEPT !.ne = @ + 1],
                     MkElement("Mirror", <<s>>, <<i>>, <<>>, 0),
                     Fmt(LabelFormat("Mirror"), S.ne + 1), <<>>)
        ELSE IF sm.interact_mode[s] = "transmit"
                /\ (i = 0 \/ IsAir(sm, sm.gaps[i]))
        THEN AddPart(S, MkElement("DummyInterface", <<s>>, <<i>>, <<>>, 0),
                     IF i = 0 THEN <<"O", "b", "j", "e", "c", "t">>
                     ELSE IF sm.stop_surface = i THEN <<"S", "t", "o", "p">>
                     ELSE Fmt(LabelFormat("DummyInterface"), i),
                     IF i = 0 THEN <<"object">>
                     ELSE IF sm.stop_surface = i THEN <<"stop">>
                     ELSE <<>>)
        ELSE S,
        g, i)

\* process_airgap: the part for a surface with air on both sides, then the
\* air gap behind it; i is the index of s, g the gap behind s
process_airgap(S, sm, i, g, s, add_ele) ==
    LET S1 ==
          IF sm.interact_mode[s] = "reflect" /\ add_ele
          THEN AddPart([S EXCEPT !.ne = @ + 1],
                       MkElement("Mirror", <<s>>, <<i>>, <<>>, 0),
                       Fmt(LabelFormat("Mirror"), S.ne + 1), <<>>)
          ELSE IF s \in sm.thinlens /\ add_ele
          THEN AddPart([S EXCEPT !.ne = @ + 1],
                       MkElement("ThinElement", <<s>>, <<i>>, <<>>, 0),
                       Fmt(LabelFormat("ThinElement"), S.ne + 1), <<>>)
          ELSE IF sm.interact_mode[s] = "transmit"
          THEN LET add_dummy == i = 0 \/ IsAir(sm, sm.gaps[i])
                   dummy_label ==
                       IF i = 0 THEN <<"O", "b", "j", "e", "c", "t">>
                       ELSE IF sm.stop_surface = i THEN <<"S", "t", "o", "p">>
                       ELSE Fmt(LabelFormat("DummyInterface"), i)
                   dummy_tag ==
                       IF i = 0 THEN <<"object">>
                       ELSE IF sm.stop_surface = i THEN <<"stop">>
                       ELSE <<>>
               IN IF add_dummy
                  THEN AddPart(S, MkElement("DummyInterface", <<s>>, <<i>>,
                                            <<>>, 0),
                               dummy_label, dummy_tag)
                  ELSE S
          ELSE S
    IN AddAirGap(S1, g, i)

\* n = part_tree.node(obj); n.parent = p: raises when no node references obj
MoveUnder(S, obj, p) ==
    IF S.err THEN S
    ELSE IF node(S.pt, obj) = NoNode THEN [S EXCEPT !.err = TRUE]
    ELSE [S EXCEPT !.pt = Reparent(@, node(S.pt, obj), p)]

\* g_node = part_tree.node(obj); if g_node: g_node.parent = p
MoveIfFound(S, obj, p) ==
    IF S.err \/ node(S.pt, obj) = NoNode THEN S
    ELSE [S EXCEPT !.pt = SetParent(@, node(S.pt, obj), p)]

\* what an emitting branch hands to the "add an AirGap" tail: the state and
\* the values of i, ifc, g at that point
Handover(S, cur, late) == [S |-> S, cur |-> IF S.err THEN cur ELSE late]

\* the buried-reflector block of the num_eles == 1 branch: S1 is the state
\* with the Lens attached as e_node
BuriedLens(S1, e_node, first, cur, last) ==
    MoveUnder(
        MoveUnder(
            MoveUnder(S1, Ifc(last.ifc),
                      FindByName(S1.pt, e_node, <<"p", "1">>)),
            Gap(cur.g), e_node),
        Gap(first.g), e_node)

\* num_eles == 1: a Lens from eles[0] and the closing interface cur; with a
\* buried reflector the far-side leaves are moved under it
EmitLens(S, eles1, cur) ==
    IF ~S.br
    THEN [S |-> AddPart([S EXCEPT !.ne = @ + 1],
                        MkElement("Element", <<eles1[1].ifc, cur.ifc>>,
                                  <<eles1[1].i, cur.i>>, <<eles1[1].g>>, 0),
                        Fmt(LabelFormat("Element"), S.ne + 1), <<>>),
          cur |-> cur]
    ELSE Handover(
            BuriedLens(
                AddPart([S EXCEPT !.ne = @ + 1],
                        MkElement("Element", <<eles1[1].ifc, cur.ifc>>,
                                  <<eles1[1].i, cur.i>>, <<eles1[1].g>>, 0),
                        Fmt(LabelFormat("Element"), S.ne + 1), <<>>),
                Fresh(S.pt), eles1[1], cur, eles1[Len(eles1)]),
            cur, eles1[Len(eles1)])

\* the loop `for i, j in enumerate(range(-1, -num_eles-1, -1), start=1)`
RECURSIVE BuriedLoop(_, _, _, _, _)
BuriedLoop(S, e_node, eles2, k, num_eles) ==
    IF k > num_eles \/ S.err THEN S
    ELSE BuriedLoop(
            MoveIfFound(
                MoveUnder(S, Ifc(eles2[Len(eles2) + 1 - k].ifc),
                          FindByName(S.pt, e_node, Fmt(<<"p">>, k))),
                Gap(eles2[Len(eles2) - k].g), e_node),
            e_node, eles2, k + 1, num_eles)

\* CementedElement(ifc_list): wraps the interfaces of the list and the gaps
\* between them
CementedOf(part) ==
    MkElement("CementedElement",
              [k \in 1..Len(part) |-> part[k].ifc],
              [k \in 1..Len(part) |-> part[k].i],
              [k \in 1..(Len(part) - 1) |-> part[k].g], 0)

\* eles[:k]
SliceTo(s, k) == SubSeq(s, 1, IF k < Len(s) THEN k ELSE Len(s))

\* mutant of CementedFrom: the CementedElement is built from eles[:num_eles]
CementedFrom_short(S, eles2, num_eles) ==
    AddPart([S EXCEPT !.ne = @ + 1],
            CementedOf(SliceTo(eles2, num_eles)),
            Fmt(LabelFormat("CementedElement"), S.ne + 1), <<>>)

\* num_eles > 1: a CementedElement from eles[:num_eles+1]; eles2 is eles
\* after the append of the non-buried case
CementedFrom(S, eles2, num_eles) ==
    IF S.br
    THEN BuriedLoop(AddPart([S EXCEPT !.ne = @ + 1],
                            CementedOf(SliceTo(eles2, num_eles + 1)),
                            Fmt(LabelFormat("CementedElement"), S.ne + 1),
                            <<>>),
                    Fresh(S.pt), eles2, 1, num_eles)
    ELSE AddPart([S EXCEPT !.ne = @ + 1],
                 CementedOf(SliceTo(eles2, num_eles + 1)),
                 Fmt(LabelFormat("CementedElement"), S.ne + 1), <<>>)

EmitCemented(S, eles1, cur, num_eles) ==
    IF ~S.br
    THEN [S |-> CementedFrom(S, Append(eles1, cur), num_eles), cur |-> cur]
    ELSE [S |-> CementedFrom(S, eles1, num_eles),
          cur |-> eles1[Len(eles1)]]

\* mutant of CloseTail: eles is not reset after the AirGap
CloseTail_keep_pending(R) ==
    IF R.S.err THEN R.S
    ELSE [AddAirGap(R.S, R.cur.g, R.cur.i) EXCEPT !.br = FALSE]

\* the tail of the branch: "add an AirGap", then the resets
CloseTail(R) ==
    IF R.S.err THEN R.S
    ELSE [AddAirGap(R.S, R.cur.g, R.cur.i) EXCEPT !.eles = <<>>, !.br = FALSE]

\* the head of the branch: num_eles, and with a buried reflector the append
\* and the rebinding of i, ifc, g to eles[1]
Emit(S, num_eles, eles1, cur1) ==
    IF num_eles = 1 THEN EmitLens(S, eles1, cur1)
    ELSE IF num_eles > 1 THEN EmitCemented(S, eles1, cur1, num_eles)
    ELSE [S |-> S, cur |-> cur1]

\* the branch of the loop body for an air gap behind a non-empty eles
CloseRun(S, i, ifc, g) ==
    IF S.br
    THEN CloseTail(Emit(S, Len(S.eles) \div 2, Append(S.eles, Seg(i, ifc, g)),
                        Append(S.eles, Seg(i, ifc, g))[2]))
    ELSE CloseTail(Emit(S, Len(S.eles), S.eles, Seg(i, ifc, g)))

\* mutant of LoopBody: process_airgap is called for the object surface too
LoopBody_from_object(S, sm, i) ==
    IF Path(sm)[i + 1].g = None THEN S
    ELSE IF IsAir(sm, Path(sm)[i + 1].g)
    THEN IF Len(S.eles) = 0
         THEN process_airgap(S, sm, i, Path(sm)[i + 1].g,
                             Path(sm)[i + 1].ifc, TRUE)
         ELSE CloseRun(S, i, Path(sm)[i + 1].ifc, Path(sm)[i + 1].g)
    ELSE [S EXCEPT !.br = (sm.interact_mode[Path(sm)[i + 1].ifc] = "reflect")
                          \/ @,
                   !.eles = Append(@, Seg(i, Path(sm)[i + 1].ifc,
                                          Path(sm)[i + 1].g))]

\* mutant of LoopBody: the stop surface is kept out of the pending list
LoopBody_stop_apart(S, sm, i) ==
    IF Path(sm)[i + 1].g = None THEN S
    ELSE IF IsAir(sm, Path(sm)[i + 1].g)
    THEN IF Len(S.eles) = 0
         THEN IF i > 0
              THEN process_airgap(S, sm, i, Path(sm)[i + 1].g,
                                  Path(sm)[i + 1].ifc, TRUE)
              ELSE S
         ELSE CloseRun(S, i, Path(sm)[i + 1].ifc, Path(sm)[i + 1].g)
    ELSE IF sm.stop_surface = i THEN S
    ELSE [S EXCEPT !.br = (sm.interact_mode[Path(sm)[i + 1].ifc] = "reflect")
                          \/ @,
                   !.eles = Append(@, Seg(i, Path(sm)[i + 1].ifc,
                                          Path(sm)[i + 1].g))]

\* one iteration of `for i, seg in enumerate(path)`
LoopBody(S, sm, i) ==
    LET seg == Path(sm)[i + 1]
        ifc == seg.ifc
        g == seg.g
    IN IF g = None THEN S
       ELSE IF IsAir(sm, g)
       THEN IF Len(S.eles) = 0
            THEN IF i > 0 THEN process_airgap(S, sm, i, g, ifc, TRUE) ELSE S
            ELSE CloseRun(S, i, ifc, g)
       ELSE [S EXCEPT !.br = (sm.interact_mode[ifc] = "reflect") \/ @,
                      !.eles = Append(@, Seg(i, ifc, g))]

\* ------------------------------------------------------ export and import
RECURSIVE Depth(_, _)
Depth(t, n) == IF ParentOf(t, n) = NoNode THEN 0 ELSE 1 + Depth(t, ParentOf(t, n))

\* DictExporter with the attriter of __json_encode__: the nested records of
\* the tree, each holding name and tag only, written in pre-order with the
\* nesting depth
Export(t) ==
    LET it == PreOrderIter(t, RootId)
    IN [k \in 1..Len(it) |->
           [depth |-> Depth(t, it[k]), name |-> t[it[k]].name,
            tag |-> t[it[k]].tag]]

\* DictImporter.import_: a fresh tree of nodes that have no id attribute
Import(recs) ==
    LET par(j) == Max({k \in 1..(j - 1) : recs[k].depth = recs[j].depth - 1})
        kidsOf(k) == {j \in (k + 1)..Len(recs) :
                         recs[j].depth = recs[k].depth + 1 /\ par(j) = k}
        RECURSIVE Sorted(_)
        Sorted(S) == IF S = {} THEN <<>>
                     ELSE <<Min(S) - 1>> \o Sorted(S \ {Min(S)})
    IN [n \in 0..(Len(recs) - 1) |->
           [name |-> recs[n + 1].name, tag |-> recs[n + 1].tag, id |-> NoId,
            children |-> Sorted(kidsOf(n + 1))]]

\* ------------------------------------------------------------ sync engine
\* ele_dict = {e.label: e for e in ele_model.elements}
InDict(em, name) == \E k \in 1..Len(em) : em[k].label = name

EleDict(em, name) == em[Max({k \in 1..Len(em) : em[k].label = name})]

\* list[idx] with Python's negative indices; InRange is false where the
\* subscript raises IndexError
InRange(s, idx) == idx >= 0 - Len(s) /\ idx < Len(s)

At(s, idx) == IF idx >= 0 THEN s[idx + 1] ELSE s[Len(s) + idx + 1]

\* the body of the loop of sync_part_tree_on_restore for node n;
\* R = [pt, err], err set when the body raises
restore_node(R, n, em, sm) ==
    LET t == R.pt
        name == t[n].name
        par == ParentOf(t, n)
        hasE == par # NoNode /\ InDict(em, t[par].name)
        e == EleDict(em, t[par].name)
        idx == IntOf(Rest(name))
        SetId(v) == [R EXCEPT !.pt[n].id = v]
        Raise == [R EXCEPT !.err = TRUE]
    IN IF InDict(em, name) THEN SetId(Ele(EleDict(em, name).eid))
       ELSE IF name[1] = "i"
       THEN IF idx = None \/ ~InRange(sm.ifcs, idx) THEN Raise
            ELSE SetId(Ifc(At(sm.ifcs, idx)))
       ELSE IF name[1] = "g"
       THEN IF idx = None \/ ~InRange(sm.gaps, idx) THEN Raise
            ELSE SetId(Gap(At(sm.gaps, idx)))
       ELSE IF name[1] = "p"
       THEN IF ~hasE \/ idx = None THEN Raise
            ELSE IF ~InRange(interface_list(e), idx - 1) THEN Raise
            ELSE SetId(Profile(At(interface_list(e), idx - 1)))
       ELSE IF Prefix(name, 1) = <<"d", "i">>
       THEN IF ~hasE \/ e.cls # "DummyInterface" THEN Raise
            ELSE SetId(Ifc(ref_ifc(e)))
       ELSE IF Prefix(name, 1) = <<"t", "l">>
       THEN IF ~hasE \/ e.cls # "ThinElement" THEN Raise
            ELSE SetId(Ifc(ref_ifc(e)))
       ELSE R

\* mutant of update_node: the new index is appended to the old name of an
\* interface or gap node instead of replacing its digits
update_node_appending(R, n, em, sm) ==
    LET name == R.pt[n].name
        id == R.pt[n].id
    IN IF name[1] = "i" /\ id.t = "ifc" /\ IndexOf(sm.ifcs, id.k) # None
       THEN [R EXCEPT !.pt[n].name = name \o Str(IndexOf(sm.ifcs, id.k))]
       ELSE IF name[1] = "g" /\ id.t = "gap" /\ IndexOf(sm.gaps, id.k) # None
       THEN [R EXCEPT !.pt[n].name = name \o Str(IndexOf(sm.gaps, id.k))]
       ELSE R

\* mutant of update_node: the index of an interface or gap node is read
\* from its old name instead of being looked up in the sequence model
update_node_stale(R, n, em, sm) ==
    LET name == R.pt[n].name
    IN IF name[1] \in {"i", "g"} /\ IntOf(Rest(name)) # None
       THEN [R EXCEPT !.pt[n].name = Fmt(<<name[1]>>, IntOf(Rest(name)))]
       ELSE R

\* the body of the loop of sync_part_tree_on_update for node n
update_node(R, n, em, sm) ==
    LET t == R.pt
        name == t[n].name
        id == t[n].id
        par == ParentOf(t, n)
        hasE == par # NoNode /\ InDict(em, t[par].name)
        e == EleDict(em, t[par].name)
        ifc_idx(v) == IF v.t = "ifc" THEN IndexOf(sm.ifcs, v.k) ELSE None
        gap_idx(v) == IF v.t = "gap" THEN IndexOf(sm.gaps, v.k) ELSE None
        pidx == IF Len(name) > 1 THEN IntOf(Rest(name)) - 1 ELSE 0
        Raise == [R EXCEPT !.err = TRUE]
    IN IF name[1] = "i"
       THEN IF ifc_idx(id) = None THEN Raise
            ELSE [R EXCEPT !.pt[n].name = Fmt(<<"i">>, ifc_idx(id))]
       ELSE IF name[1] = "g"
       THEN IF gap_idx(id) = None THEN Raise
            ELSE [R EXCEPT !.pt[n].name = Fmt(<<"g">>, gap_idx(id))]
       ELSE IF name[1] = "p"
       THEN IF ~hasE \/ (Len(name) > 1 /\ IntOf(Rest(name)) = None) THEN Raise
            ELSE IF ~InRange(interface_list(e), pidx) THEN Raise
            ELSE [R EXCEPT !.pt[n].id = Profile(At(interface_list(e), pidx))]
       ELSE IF Prefix(name, 2) = <<"d", "i">>
       THEN IF ~hasE \/ e.cls # "DummyInterface" THEN Raise
            ELSE IF ifc_idx(Ifc(ref_ifc(e))) = None
                 THEN [Raise EXCEPT !.pt[n].id = Ifc(ref_ifc(e))]
            ELSE [R EXCEPT !.pt[n].id = Ifc(ref_ifc(e)),
                           !.pt[n].name =
                               Fmt(<<"d", "i">>, ifc_idx(Ifc(ref_ifc(e))))]
       ELSE IF Prefix(name, 2) = <<"t", "l">>
       THEN IF ~hasE \/ e.cls # "ThinElement" THEN Raise
            ELSE IF ifc_idx(Ifc(ref_ifc(e))) = None
                 THEN [Raise EXCEPT !.pt[n].id = Ifc(ref_ifc(e))]
            ELSE [R EXCEPT !.pt[n].id = Ifc(ref_ifc(e)),
                           !.pt[n].name =
                               Fmt(<<"t", "l">>, ifc_idx(Ifc(ref_ifc(e))))]
       ELSE IF id.t = "ele" /\ id.k \in 1..Len(em)
       THEN [R EXCEPT !.pt[n].name = em[id.k].label]
       ELSE R

\* `for node in PreOrderIter(root_node)` of sync_part_tree_on_restore
RECURSIVE RestoreLoop(_, _, _, _)
RestoreLoop(R, it, em, sm) ==
    IF it = <<>> \/ R.err THEN R
    ELSE RestoreLoop(restore_node(R, Head(it), em, sm), Tail(it), em, sm)

sync_part_tree_on_restore(em, sm, t) ==
    RestoreLoop([pt |-> t, err |-> FALSE], PreOrderIter(t, RootId), em, sm)

\* `for node in PreOrderIter(root_node)` of sync_part_tree_on_update
RECURSIVE UpdateLoop(_, _, _, _)
UpdateLoop(R, it, em, sm) ==
    IF it = <<>> \/ R.err THEN R
    ELSE UpdateLoop(update_node(R, Head(it), em, sm), Tail(it), em, sm)

sync_part_tree_on_update(em, sm, t) ==
    UpdateLoop([pt |-> t, err |-> FALSE], PreOrderIter(t, RootId), em, sm)

\* PartTree.sync_to_restore on the exported root_node
sync_to_restore(em, sm, root_node_compressed) ==
    sync_part_tree_on_restore(em, sm, Import(root_node_compressed))

\* The tree as seen from outside: its nodes in pre-order with their depth
Flatten(t) ==
    LET it == PreOrderIter(t, RootId)
    IN [k \in 1..Len(it) |->
           [depth |-> Depth(t, it[k]), name |-> t[it[k]].name,
            tag |-> t[it[k]].tag, id |-> t[it[k]].id]]

\* ---------------------------------------------------------------- WvlSpec
\* A WvlSpec object: the lists wavelengths, spectral_wts and render_colors,
\* reference_wvl and coating_wvl; raised is set when the last call ended in
\* an exception, and before then holds the three lists as they were when
\* that call began (after a call that returned, the lists it left).
Lists(ws) ==
    [wavelengths |-> ws.wavelengths, spectral_wts |-> ws.spectral_wts,
     render_colors |-> ws.render_colors]

\* srgb.wvl_to_rgb(w): the colour of wavelength w
wvl_to_rgb(w) == <<"rgb", w>>

\* WvlSpec.calc_colors
calc_colors(ws) ==
    LET num_wvls == Len(ws.wavelengths)
    IN [ws EXCEPT !.render_colors =
           IF num_wvls = 1 THEN <<"black">>
           ELSE IF num_wvls = 2 THEN <<"blue", "red">>
           ELSE IF num_wvls = 3 THEN <<"blue", "green", "red">>
           ELSE [k \in 1..num_wvls |-> wvl_to_rgb(ws.wavelengths[k])]]

\* WvlSpec.set_from_list; wlwts is a list of pairs (wavelength, weight)
set_from_list(ws, wlwts) ==
    LET done == calc_colors([ws EXCEPT
                    !.wavelengths = [k \in 1..Len(wlwts) |-> wlwts[k][1]],
                    !.spectral_wts = [k \in 1..Len(wlwts) |-> wlwts[k][2]],
                    !.raised = FALSE])
    IN [done EXCEPT !.before = Lists(done)]

\* WvlSpec.add: both appends, then self.spectrum, an attribute no statement
\* of the class sets, raises AttributeError
add(ws, wl, wt) ==
    [ws EXCEPT !.wavelengths = Append(@, wl),
               !.spectral_wts = Append(@, wt),
               !.raised = TRUE,
               !.before = Lists(ws)]

\* WvlSpec.__init__
WvlSpec(wlwts, ref_wl) ==
    [set_from_list([wavelengths |-> <<>>, spectral_wts |-> <<>>,
                    render_colors |-> <<>>, reference_wvl |-> ref_wl,
                    coating_wvl |-> 550, raised |-> FALSE,
                    before |-> [wavelengths |-> <<>>, spectral_wts |-> <<>>,
                                render_colors |-> <<>>]],
                   wlwts)
        EXCEPT !.reference_wvl = ref_wl, !.coating_wvl = 550]

\* ------------------------------------------------------------------ state
\* seq_model, ele_model (ele_model.elements) and part_tree are the three
\* models of the optical model; pc, path_i, eles, buried_reflector and
\* num_elements are the position and locals of elements_from_sequence; op is
\* the last operation that completed; saved is the exported tree; runs and
\* attached count the passes begun and the parts attached directly; snap is a history
\* variable: what an operation saw when it started.
VARIABLES seq_model, ele_model, part_tree, pc, path_i, eles,
          buried_reflector, num_elements, op, saved, runs, attached, snap,
          wvl_spec

vars == <<seq_model, ele_model, part_tree, pc, path_i, eles,
          buried_reflector, num_elements, op, saved, runs, attached, snap,
          wvl_spec>>

locals == <<pc, path_i, eles, buried_reflector, num_elements>>

\* Well-formed sequence models of n interfaces: dummy transmitting surfaces
\* and air at both ends; the least has the object and the image surface and
\* one inner surface. Interface and gap objects are numbered; at the
\* start object k sits at index k.
SeqModels(n) ==
    {[ifcs |-> [k \in 1..n |-> k - 1],
      gaps |-> [k \in 1..(n - 1) |-> k - 1],
      stop_surface |-> st,
      interact_mode |-> [k \in 0..(n - 1) |->
                            IF k \in refl THEN "reflect" ELSE "transmit"],
      thinlens |-> th,
      air |-> {0, n - 2} \cup ag] :
        st \in {None} \cup 1..(IF MaxStop < n - 2 THEN MaxStop ELSE n - 2),
        refl \in SUBSET (1..(n - 2)),
        th \in {x \in SUBSET (1..(n - 2)) : Cardinality(x) <= MaxThin},
        ag \in SUBSET (1..(n - 3))}

InitParts(hi) ==
    /\ seq_model \in UNION {SeqModels(n) : n \in 3..hi}
    /\ ele_model = <<>>
    /\ part_tree = EmptyTree
    /\ pc = "idle"
    /\ path_i = 0
    /\ eles = <<>>
    /\ buried_reflector = FALSE
    /\ num_elements = 0
    /\ op = "new"
    /\ saved = <<>>
    /\ runs = 0
    /\ attached = 0
    /\ snap = <<>>

\* a new optical model; its spectral region is WvlSpec()
InitWith(hi) ==
    /\ InitParts(hi)
    /\ wvl_spec = WvlSpec(<<<<550, 1>>>>, 0)

Init == InitWith(MaxIfcs)

InitSync == InitWith(MaxSyncIfcs)

InitAttach == InitWith(MaxAttachIfcs)

\* the part nodes of the tree: the children of root that reference an element
PartNodes(t) ==
    {n \in Range(t[RootId].children) : t[n].id.t = "ele"}

\* elements_from_sequence, up to the loop
StartPass ==
    /\ UNCHANGED wvl_spec
    /\ pc = "idle"
    /\ part_tree' = IF Len(part_tree[RootId].children) = 0
                    THEN init_from_sequence(part_tree, seq_model)
                    ELSE part_tree
    /\ num_elements' = 0
    /\ buried_reflector' = FALSE
    /\ eles' = <<>>
    /\ path_i' = 0
    /\ pc' = "loop"
    /\ runs' = runs + 1
    /\ UNCHANGED <<seq_model, ele_model, op, saved, attached>>

\* the first pass, on the empty tree of a new optical model
BeginPass ==
    /\ op \in {"new", "init"}
    /\ runs = 0
    /\ StartPass
    /\ UNCHANGED snap

\* a further pass over the tree and the element model the last pass left
BeginAgain ==
    /\ op = "group"
    /\ runs < MaxPasses
    /\ StartPass
    /\ snap' = [neles |-> Len(ele_model),
                nparts |-> Cardinality(PartNodes(part_tree))]

\* the state the loop body leaves, written back; last is true at the end
\* of the path
Leave(R, last) ==
    /\ part_tree' = R.pt
    /\ ele_model' = R.em
    /\ num_elements' = R.ne
    /\ eles' = R.eles
    /\ buried_reflector' = R.br
    /\ pc' = IF R.err THEN "error" ELSE IF last THEN "idle" ELSE "loop"
    /\ op' = IF R.err THEN op ELSE IF last THEN "group" ELSE op

\* elements_from_sequence, one iteration of the loop over the path
PassStep ==
    /\ UNCHANGED wvl_spec
    /\ pc = "loop"
    /\ path_i < Len(seq_model.ifcs)
    /\ Leave(LoopBody([pt |-> part_tree, em |-> ele_model,
                       ne |-> num_elements, eles |-> eles,
                       br |-> buried_reflector, err |-> FALSE],
                      seq_model, path_i),
             path_i + 1 = Len(seq_model.ifcs))
    /\ path_i' = path_i + 1
    /\ UNCHANGED <<seq_model, saved, runs, attached, snap>>

\* PartTree.__json_encode__
Save ==
    /\ UNCHANGED wvl_spec
    /\ pc = "idle"
    /\ op = "group"
    /\ saved' = Export(part_tree)
    /\ snap' = Flatten(part_tree)
    /\ op' = "save"
    /\ UNCHANGED <<seq_model, ele_model, part_tree, locals, runs, attached>>

\* PartTree.sync_to_restore on the saved tree, with the sequence model and
\* the element model as they were when it was saved
Restore ==
    /\ UNCHANGED wvl_spec
    /\ pc = "idle"
    /\ op = "save"
    /\ LET R == sync_to_restore(ele_model, seq_model, saved)
       IN /\ part_tree' = R.pt
          /\ pc' = IF R.err THEN "error" ELSE "idle"
          /\ op' = IF R.err THEN op ELSE "restore"
    /\ UNCHANGED <<seq_model, ele_model, path_i, eles, buried_reflector,
                   num_elements, saved, runs, attached, snap>>

\* PartTree.update_model
UpdateModel ==
    /\ UNCHANGED wvl_spec
    /\ pc = "idle"
    /\ op \in {"group", "edit", "update"}
    /\ LET R == sync_part_tree_on_update(ele_model, seq_model, part_tree)
       IN /\ part_tree' = R.pt
          /\ pc' = IF R.err THEN "error" ELSE "idle"
          /\ op' = IF R.err THEN op
                   ELSE IF op = "update" THEN "update2" ELSE "update"
    /\ snap' = Flatten(part_tree)
    /\ UNCHANGED <<seq_model, ele_model, path_i, eles, buried_reflector,
                   num_elements, saved, runs, attached>>

InsertAt(s, pos, x) ==
    SubSeq(s, 1, pos) \o <<x>> \o SubSeq(s, pos + 1, Len(s))

DeleteAt(s, pos) == SubSeq(s, 1, pos) \o SubSeq(s, pos + 2, Len(s))

\* the number of a new object: the least one no object of S has
Unused(S) == Min({k \in 0..Cardinality(S) : k \notin S})

\* the tree references the interface or the gap at index pos
Referenced(t, sm, pos) ==
    \E n \in Nodes(t) :
        t[n].id \in {Ifc(sm.ifcs[pos + 1]), Gap(sm.gaps[pos + 1])}

\* An edit of the sequence model: a new transmitting surface and a new air
\* gap are inserted at index pos. The sequence grows to at most one surface
\* more than the longest initial one.
InsertSurface(pos) ==
    /\ UNCHANGED wvl_spec
    /\ pc = "idle"
    /\ op \in {"group", "edit"}
    /\ Len(seq_model.ifcs) <= MaxSyncIfcs
    /\ LET s == Unused(Range(seq_model.ifcs))
           g == Unused(Range(seq_model.gaps))
       IN seq_model' =
            [seq_model EXCEPT
                !.ifcs = InsertAt(@, pos, s),
                !.gaps = InsertAt(@, pos, g),
                !.interact_mode = [k \in DOMAIN @ \cup {s} |->
                                      IF k = s THEN "transmit" ELSE @[k]],
                !.air = @ \cup {g},
                !.stop_surface = IF @ # None /\ @ >= pos THEN @ + 1 ELSE @]
    /\ op' = "edit"
    /\ UNCHANGED <<ele_model, part_tree, locals, saved, runs, attached, snap>>

\* An edit of the sequence model: the surface at index pos and the gap
\* behind it are removed. Only surfaces the tree does not reference are
\* removed here: with a referent gone, update_model raises in list.index.
DeleteSurface(pos) ==
    /\ UNCHANGED wvl_spec
    /\ pc = "idle"
    /\ op \in {"group", "edit"}
    /\ ~Referenced(part_tree, seq_model, pos)
    /\ seq_model' =
            [seq_model EXCEPT
                !.ifcs = DeleteAt(@, pos),
                !.gaps = DeleteAt(@, pos),
                !.interact_mode = [k \in DOMAIN @ \ {seq_model.ifcs[pos + 1]}
                                      |-> @[k]],
                !.air = @ \ {seq_model.gaps[pos + 1]},
                !.stop_surface = IF @ = pos THEN None
                                 ELSE IF @ # None /\ @ > pos THEN @ - 1 ELSE @]
    /\ op' = "edit"
    /\ UNCHANGED <<ele_model, part_tree, locals, saved, runs, attached, snap>>

Edit ==
    \/ \E pos \in 1..(Len(seq_model.ifcs) - 1) : InsertSurface(pos)
    \/ \E pos \in 1..(Len(seq_model.ifcs) - 2) : DeleteSurface(pos)

\* PartTree.init_from_sequence called on the empty tree of a new model
InitFromSequence ==
    /\ UNCHANGED wvl_spec
    /\ pc = "idle"
    /\ op = "new"
    /\ part_tree' = init_from_sequence(part_tree, seq_model)
    /\ op' = "init"
    /\ UNCHANGED <<seq_model, ele_model, locals, saved, runs, attached, snap>>

\* The elements a caller can build over the sequence model: a Mirror or a
\* DummyInterface at an inner surface, a Lens over two neighbours, a CementedElement
\* over three, an AirGap at a gap.
Candidates(sm) ==
    LET n == Len(sm.ifcs)
    IN {MkElement(c, <<sm.ifcs[i + 1]>>, <<i>>, <<>>, 0) :
            c \in {"Mirror", "DummyInterface"}, i \in 1..(n - 2)}
       \cup {MkElement("Element", <<sm.ifcs[i + 1], sm.ifcs[i + 2]>>,
                       <<i, i + 1>>, <<sm.gaps[i + 1]>>, 0) : i \in 1..(n - 3)}
       \cup {MkElement("CementedElement",
                       <<sm.ifcs[i + 1], sm.ifcs[i + 2], sm.ifcs[i + 3]>>,
                       <<i, i + 1, i + 2>>,
                       <<sm.gaps[i + 1], sm.gaps[i + 2]>>, 0) : i \in 1..(n - 4)}
       \cup {AirGapOf(sm.gaps[i + 1], i) : i \in 1..(n - 2)}

\* PartTree.add_element_to_tree called directly with a new element e, which
\* the caller also adds to the element model
AttachPart(e) ==
    /\ UNCHANGED wvl_spec
    /\ pc = "idle"
    /\ op \in {"init", "group", "attach"}
    /\ attached < MaxAttach
    /\ LET R == AddPart([pt |-> part_tree, em |-> ele_model],
                        e, Fmt(<<"X">>, Len(ele_model) + 1), <<>>)
       IN /\ part_tree' = R.pt
          /\ ele_model' = R.em
    /\ attached' = attached + 1
    /\ op' = "attach"
    /\ UNCHANGED <<seq_model, locals, saved, runs, snap>>

Attach == \E e \in Candidates(seq_model) : AttachPart(e)

\* the tag filters a caller passes to the queries: one marker, or the
\* default filter of parent_node
Markers ==
    {"element", "airgap", "dummyifc", "ifc", "gap", "profile", "lens",
     "thinlens", "root"}

Filters == {<<m>> : m \in Markers} \cup {<<"element", "airgap", "dummyifc">>}

\* the objects a caller asks about: every interface and gap of the
\* sequence, the object and the image surface included
Referents(sm) ==
    {Ifc(sm.ifcs[k]) : k \in 1..Len(sm.ifcs)}
        \cup {Gap(sm.gaps[k]) : k \in 1..Len(sm.gaps)}

\* PartTree.nodes_with_tag called on the tree of a new model or after a pass
QueryNodes(tag) ==
    /\ UNCHANGED wvl_spec
    /\ pc = "idle"
    /\ op \in {"new", "group"}
    /\ op' = "nodes"
    /\ snap' = [tag |-> tag, res |-> nodes_with_tag(part_tree, tag)]
    /\ UNCHANGED <<seq_model, ele_model, part_tree, locals, saved, runs,
                   attached>>

\* PartTree.node and PartTree.parent_node called for obj
QueryParent(obj, tag) ==
    /\ UNCHANGED wvl_spec
    /\ pc = "idle"
    /\ op \in {"new", "group"}
    /\ op' = "parent"
    /\ snap' = [obj |-> obj, tag |-> tag, node |-> node(part_tree, obj),
                res |-> parent_node(part_tree, obj, tag)]
    /\ UNCHANGED <<seq_model, ele_model, part_tree, locals, saved, runs,
                   attached>>

Query ==
    \/ \E tag \in Filters : QueryNodes(tag)
    \/ \E tag \in Filters : \E obj \in Referents(seq_model) :
          QueryParent(obj, tag)

InitQuery == InitWith(MaxQueryIfcs)

\* labels a user gives to an element in place of the generated one
UserLabels ==
    {<<"L", "1">>, <<"i", "r", "i", "s">>, <<"g", "r", "p">>,
     <<"p", "r", "i", "s", "m">>, <<"d", "i", "s", "k">>, <<"t", "l", "1">>}

\* e.label = label for element x of the element model, after the pass
Rename(x, label) ==
    /\ UNCHANGED wvl_spec
    /\ pc = "idle"
    /\ op = "group"
    /\ ele_model' = [ele_model EXCEPT ![x].label = label]
    /\ op' = "edit"
    /\ UNCHANGED <<seq_model, part_tree, locals, saved, runs, attached, snap>>

Relabel == \E x \in 1..Len(ele_model) : \E label \in UserLabels : Rename(x, label)

InitRename == InitWith(MaxRenameIfcs)

\* the wavelengths (nm) and weights callers pass
Wavelengths == {486, 588, 656}

Weights == {1}

\* the lists of (wavelength, weight) pairs of at most n entries
WlWts(n) ==
    UNION {[1..k -> Wavelengths \X Weights] : k \in 0..n}

\* a WvlSpec constructed from a list; the part tree is that of a new model
\* with the one inner surface
InitWvl ==
    /\ InitParts(3)
    /\ seq_model.stop_surface = None
    /\ seq_model.thinlens = {}
    /\ \A s \in Range(seq_model.ifcs) : seq_model.interact_mode[s] = "transmit"
    /\ wvl_spec \in {WvlSpec(wlwts, 0) : wlwts \in WlWts(MaxWvls)}

\* WvlSpec.set_from_list called with a list
SetFromList ==
    /\ \E wlwts \in WlWts(MaxWvls) :
          wvl_spec' = set_from_list(wvl_spec, wlwts)
    /\ UNCHANGED <<seq_model, ele_model, part_tree, locals, op, saved, runs,
                   attached, snap>>

\* WvlSpec.add called with a wavelength and a weight
AddWvl ==
    /\ Len(wvl_spec.wavelengths) < MaxWvls
    /\ \E wl \in Wavelengths : \E wt \in Weights :
          wvl_spec' = add(wvl_spec, wl, wt)
    /\ UNCHANGED <<seq_model, ele_model, part_tree, locals, op, saved, runs,
                   attached, snap>>

NextGroup == BeginPass \/ PassStep

\* one grouping pass over a new optical model
Spec == Init /\ [][NextGroup]_vars

NextRestore == BeginPass \/ PassStep \/ Save \/ Restore

\* a grouping pass, then the tree is saved and restored
SpecRestore == Init /\ [][NextRestore]_vars

NextUpdate == BeginPass \/ PassStep \/ Edit \/ UpdateModel

\* a grouping pass, then edits of the sequence and update_model calls
SpecUpdate == InitSync /\ [][NextUpdate]_vars

NextRegroup == BeginPass \/ BeginAgain \/ PassStep

\* grouping passes one after the other over the same sequence
SpecRegroup == Init /\ [][NextRegroup]_vars

NextQuery == BeginPass \/ PassStep \/ Query

\* a grouping pass, and the queries on the tree before and after it
SpecQuery == InitQuery /\ [][NextQuery]_vars

NextRename == BeginPass \/ PassStep \/ Relabel \/ UpdateModel

\* a grouping pass, an element is given a new label, update_model calls
SpecRename == InitRename /\ [][NextRename]_vars

NextWvl == SetFromList \/ AddWvl

\* a WvlSpec and the calls of set_from_list and add on it
SpecWvl == InitWvl /\ [][NextWvl]_vars

NextAttach == InitFromSequence \/ BeginPass \/ PassStep \/ Attach

\* the tree is initialised or grouped, then parts are attached directly
SpecAttach == InitAttach /\ [][NextAttach]_vars

\* ------------------------------------------------------------ properties
\* the raw interfaces and gaps of the sequence model
RawObjects(sm) ==
    {Ifc(k) : k \in Range(sm.ifcs)} \cup {Gap(k) : k \in Range(sm.gaps)}

LeavesOn(t, obj) == {n \in Nodes(t) : t[n].children = <<>> /\ t[n].id = obj}

\* C1: a tree built by the grouping pass, exported to name/tag records and
\* restored against the same sequence model and element model, has the
\* shape, names and tags it had and every node below the root has the
\* referent it had.
C1_RoundTrip == op = "restore" => Tail(Flatten(part_tree)) = Tail(snap)

\* C2: after init_from_sequence and any add_element_to_tree calls, those of
\* the grouping pass included, every raw interface and every raw gap is the
\* referent of at most one leaf reachable from the root.
C2_RawLeafOnce ==
    \A obj \in RawObjects(seq_model) :
        Cardinality(LeavesOn(part_tree, obj)) <= 1

\* C2 witness: a part was attached directly after a pass and took a leaf
\* away from a part of the pass, whose profile node is left without children
C2_Witness ==
    /\ op = "attach"
    /\ runs = 1
    /\ \E n \in Nodes(part_tree) :
          /\ part_tree[n].tag = <<"profile">>
          /\ part_tree[n].children = <<>>
    /\ \E obj \in RawObjects(seq_model) :
          Cardinality(LeavesOn(part_tree, obj)) = 1

\* the prefix the name of a node referencing an interface carries: di under
\* a DummyInterface, tl under a ThinElement, i elsewhere
IfcPrefix(t, em, n) ==
    LET par == ParentOf(t, n)
        cls == IF par # NoNode /\ t[par].id.t = "ele" /\ t[par].id.k \in 1..Len(em)
               THEN em[t[par].id.k].cls ELSE "none"
    IN IF cls = "DummyInterface" THEN <<"d", "i">>
       ELSE IF cls = "ThinElement" THEN <<"t", "l">>
       ELSE <<"i">>

\* some interface the tree references no longer sits at the index it had
\* when the tree was built
IndexShifted(t, sm) ==
    \E n \in Nodes(t) :
        t[n].id.t = "ifc" /\ IndexOf(sm.ifcs, t[n].id.k) # t[n].id.k

\* C3: a second update_model call with no change of the sequence model or
\* the element model since the first leaves every node with the name and
\* the referent the first call left (snap is the tree the call started on).
C3_UpdateIdempotent == op = "update2" => Flatten(part_tree) = snap

\* C3 witness: update_model ran twice in a row after an edit that shifted
\* the index of a referenced interface
C3_Witness == op = "update2" /\ IndexShifted(part_tree, seq_model)

\* the names update_model is to leave: the index in the name of every node
\* that references an interface or a gap is the current index of the referent
NamesCurrent(t, em, sm) ==
    \A n \in Nodes(t) :
        /\ t[n].id.t = "ifc" =>
              t[n].name = Fmt(IfcPrefix(t, em, n), IndexOf(sm.ifcs, t[n].id.k))
        /\ t[n].id.t = "gap" =>
              t[n].name = Fmt(<<"g">>, IndexOf(sm.gaps, t[n].id.k))

\* a flattened tree without its names
Shape(flat) ==
    [k \in 1..Len(flat) |->
        [depth |-> flat[k].depth, tag |-> flat[k].tag, id |-> flat[k].id]]

\* C4: after insertions and deletions that keep every referent of the tree
\* in the sequence, one update_model call leaves every node referencing an
\* interface named i<k> (di<k>, tl<k> under a dummy or thin-lens part) and
\* every node referencing a gap named g<k>, k the current index of the
\* referent; referents and shape of the tree are as before the call (snap).
C4_NamesFollowIndex ==
    op \in {"update", "update2"} =>
        /\ NamesCurrent(part_tree, ele_model, seq_model)
        /\ Shape(Flatten(part_tree)) = Shape(snap)

\* C4 witness: update_model completed after an edit that shifted the index
\* of a referenced interface
C4_Witness == op = "update" /\ IndexShifted(part_tree, seq_model)

\* ------------------------------------------- the parts a pass emits
\* the first pass has come to its end
Done == pc = "idle" /\ op = "group" /\ runs = 1

\* the first pass has worked through index i of the path
Past(i) == runs = 1 /\ (Done \/ (pc = "loop" /\ path_i > i))

\* the elements of the element model of class cls
OfCls(em, cls) == {x \in 1..Len(em) : em[x].cls = cls}

\* the elements that wrap interface s
Wrapping(em, s) == {x \in 1..Len(em) : s \in Range(em[x].ifcs)}

\* the AirGap parts of gap g
GapParts(em, g) == {x \in OfCls(em, "AirGap") : em[x].gaps = <<g>>}

\* element x has its part node under root
Attached(t, x) ==
    node(t, Ele(x)) # NoNode /\ ParentOf(t, node(t, Ele(x))) = RootId

\* the sequence object, air, A, glass, B, air, image; A and B transmit
SingletSeq(sm) ==
    /\ Len(sm.ifcs) = 4
    /\ sm.air = {sm.gaps[1], sm.gaps[3]}
    /\ \A s \in Range(sm.ifcs) : sm.interact_mode[s] = "transmit"
    /\ sm.thinlens = {}

\* the one Lens of the sequence spans A and B and the glass between them
OneLens(em, sm) ==
    /\ Cardinality(OfCls(em, "Element")) = 1
    /\ \A x \in OfCls(em, "Element") :
          /\ em[x].ifcs = <<sm.ifcs[2], sm.ifcs[3]>>
          /\ em[x].gaps = <<sm.gaps[2]>>

\* the nodes of the tree that carry marker m in their tag
Tagged(t, m) == {n \in Nodes(t) : m \in Range(t[n].tag)}

Runs(sm) ==
    {r \in [a : 1..(Len(sm.ifcs) - 2), k : 1..(Len(sm.ifcs) - 3)] :
        /\ r.a + r.k <= Len(sm.ifcs) - 2
        /\ IsAir(sm, sm.gaps[r.a])
        /\ IsAir(sm, sm.gaps[r.a + r.k + 1])
        /\ \A j \in r.a..(r.a + r.k - 1) : ~IsAir(sm, sm.gaps[j + 1])}

RunIfcs(sm, r) == {sm.ifcs[j + 1] : j \in r.a..(r.a + r.k)}

RunGaps(sm, r) == {sm.gaps[j + 1] : j \in r.a..(r.a + r.k - 1)}

\* the elements that wrap an interface of the run
RunParts(em, sm, r) ==
    {x \in 1..Len(em) : Range(em[x].ifcs) \cap RunIfcs(sm, r) # {}}

\* element x is followed in the element model by the AirGap part of gap g,
\* the only one of that gap
ThenAirGap(em, x, g) ==
    /\ x < Len(em)
    /\ GapParts(em, g) = {x + 1}

\* C6: for every maximal run of k non-air gaps between air that has no
\* reflecting interface, once the pass is past the closing interface exactly
\* one part wraps interfaces of the run: a Lens of the 2 bounding interfaces
\* and the 1 gap when k = 1, a CementedElement of all k+1 interfaces and k
\* gaps when k > 1; the AirGap part of the closing gap follows it, and the
\* pending list is empty after the closing step.
C6_RunOnePart ==
    \A r \in Runs(seq_model) :
        (Past(r.a + r.k)
           /\ \A s \in RunIfcs(seq_model, r) :
                  seq_model.interact_mode[s] # "reflect") =>
            /\ Cardinality(RunParts(ele_model, seq_model, r)) = 1
            /\ \A x \in RunParts(ele_model, seq_model, r) :
                  /\ ele_model[x].cls = IF r.k = 1 THEN "Element"
                                        ELSE "CementedElement"
                  /\ ele_model[x].ifcs =
                        [j \in 1..(r.k + 1) |-> seq_model.ifcs[r.a + j]]
                  /\ ele_model[x].gaps =
                        [j \in 1..r.k |-> seq_model.gaps[r.a + j]]
                  /\ ThenAirGap(ele_model, x, seq_model.gaps[r.a + r.k + 1])
                  /\ Attached(part_tree, x) /\ Attached(part_tree, x + 1)
            /\ (pc = "loop" /\ path_i = r.a + r.k + 1 =>
                    eles = <<>> /\ ~buried_reflector)

\* C6 witness: the pass has closed a run of more than one non-air gap
\* without a reflecting interface into a CementedElement
C6_Witness ==
    /\ Done
    /\ \E r \in Runs(seq_model) :
          /\ r.k > 1
          /\ \A s \in RunIfcs(seq_model, r) :
                seq_model.interact_mode[s] # "reflect"
          /\ \E x \in RunParts(ele_model, seq_model, r) :
                ele_model[x].cls = "CementedElement"

\* the surfaces at an index i > 0 with air before and behind
AirBounded(sm) ==
    {i \in 1..(Len(sm.ifcs) - 2) :
        IsAir(sm, sm.gaps[i]) /\ IsAir(sm, sm.gaps[i + 1])}

\* the class of the part for an air-bounded surface s
AirPartCls(sm, s) ==
    IF sm.interact_mode[s] = "reflect" THEN "Mirror"
    ELSE IF s \in sm.thinlens THEN "ThinElement"
    ELSE "DummyInterface"

\* C7: for every surface at an index i > 0 with air before and behind, once
\* the pass is past i exactly one part wraps the surface: a Mirror if it
\* reflects, otherwise a ThinElement if it is a thin lens, otherwise a
\* DummyInterface; no Lens or CementedElement wraps it, and the AirGap part
\* of the gap behind it follows.
C7_AirBoundedPart ==
    \A i \in AirBounded(seq_model) :
        Past(i) =>
            /\ Cardinality(Wrapping(ele_model, seq_model.ifcs[i + 1])) = 1
            /\ \A x \in Wrapping(ele_model, seq_model.ifcs[i + 1]) :
                  /\ ele_model[x].cls =
                        AirPartCls(seq_model, seq_model.ifcs[i + 1])
                  /\ ele_model[x].ifcs = <<seq_model.ifcs[i + 1]>>
                  /\ ThenAirGap(ele_model, x, seq_model.gaps[i + 1])
                  /\ Attached(part_tree, x) /\ Attached(part_tree, x + 1)

\* C7 witness: the pass has emitted a Mirror for an air-bounded surface
\* that reflects and is a thin lens as well
C7_Witness ==
    /\ Done
    /\ \E i \in AirBounded(seq_model) :
          /\ seq_model.interact_mode[seq_model.ifcs[i + 1]] = "reflect"
          /\ seq_model.ifcs[i + 1] \in seq_model.thinlens
          /\ \E x \in Wrapping(ele_model, seq_model.ifcs[i + 1]) :
                ele_model[x].cls = "Mirror"

\* the sequence of C5 with A declared the stop surface
StopSeq(sm) == SingletSeq(sm) /\ sm.stop_surface = 1

\* C8 as stated: A is emitted as its own DummyInterface part tagged #stop
\* and is not an interface of the Lens.
C8_AsStated ==
    (Done /\ StopSeq(seq_model)) =>
        /\ \E x \in Wrapping(ele_model, seq_model.ifcs[2]) :
              /\ ele_model[x].cls = "DummyInterface"
              /\ node(part_tree, Ele(x)) \in Tagged(part_tree, "stop")
        /\ \A x \in OfCls(ele_model, "Element") :
              seq_model.ifcs[2] \notin Range(ele_model[x].ifcs)

\* C8: in the sequence object, air, A, glass, B, air, image with A declared
\* the stop surface, the pass emits the Lens spanning A and B with A as its
\* first interface; A is wrapped by no other part, no DummyInterface is
\* emitted and no node is tagged #stop.
C8_StopInLens ==
    (Done /\ StopSeq(seq_model)) =>
        /\ OneLens(ele_model, seq_model)
        /\ Wrapping(ele_model, seq_model.ifcs[2]) = OfCls(ele_model, "Element")
        /\ OfCls(ele_model, "DummyInterface") = {}
        /\ Tagged(part_tree, "stop") = {}
        /\ parent_node(part_tree, Ifc(seq_model.ifcs[2]), <<"element">>)
             \in PartNodes(part_tree)

\* C8 witness: the pass over the sequence with the stop at A has ended with
\* the Lens in the element model
C8_Witness ==
    Done /\ StopSeq(seq_model) /\ OfCls(ele_model, "Element") # {}

\* the run has exactly one reflecting interface, and a non-air gap of the
\* run is behind it
Buried(sm, r) ==
    /\ Cardinality({s \in RunIfcs(sm, r) :
                       sm.interact_mode[s] = "reflect"}) = 1
    /\ \E j \in r.a..(r.a + r.k - 1) :
          sm.interact_mode[sm.ifcs[j + 1]] = "reflect"

\* the assembled parts that wrap an interface of the run
Assembled(em, sm, r) ==
    RunParts(em, sm, r)
        \cap (OfCls(em, "Element") \cup OfCls(em, "CementedElement"))

\* part x encloses every interface and every non-air gap of the run
Encloses(t, x, sm, r) ==
    /\ node(t, Ele(x)) # NoNode
    /\ \A s \in RunIfcs(sm, r) :
          parent_node(t, Ifc(s), <<"element">>) = node(t, Ele(x))
    /\ \A g \in RunGaps(sm, r) :
          parent_node(t, Gap(g), <<"element">>) = node(t, Ele(x))

\* C9: for every non-air run with exactly one reflecting interface that has
\* a non-air gap behind it, once the pass is past the closing interface
\* exactly one assembled part (Lens or CementedElement) is emitted for the
\* run, and parent_node(x, '#element') is the node of that part for every
\* interface and every non-air gap x of the run.
C9_BuriedOnePart ==
    \A r \in Runs(seq_model) :
        (Past(r.a + r.k) /\ Buried(seq_model, r)) =>
            /\ Cardinality(Assembled(ele_model, seq_model, r)) = 1
            /\ \A x \in Assembled(ele_model, seq_model, r) :
                  Encloses(part_tree, x, seq_model, r)

\* C10: a second pass over the unchanged sequence, on the tree and the
\* element model the first pass left, discards the parts of the first pass:
\* when it has ended no node reachable from the root references an element
\* of the first pass, and the tree has as many part nodes as after the
\* first pass (snap holds the counts the second pass started on).
C10_SecondPassDiscards ==
    (pc = "idle" /\ op = "group" /\ runs = 2) =>
        /\ \A n \in Nodes(part_tree) :
              part_tree[n].id.t = "ele" => part_tree[n].id.k > snap.neles
        /\ Cardinality(PartNodes(part_tree)) = snap.nparts

\* ------------------------------------------------ the tree as a structure
\* the children of node p that carry the name nm
Named(t, p, nm) == {k \in 1..Len(t[p].children) : t[t[p].children[k]].name = nm}

\* the nodes that hold n among their children
ParentsOf(t, n) == {p \in DOMAIN t : n \in Range(t[p].children)}

\* C11: in every state reached by init_from_sequence, grouping passes,
\* sequence edits and update_model calls the tree has a single root (root
\* has no parent, every other node exactly one) and no two children of the
\* same parent have the same name.
C11_SingleRootUniqueSiblings ==
    /\ ParentsOf(part_tree, RootId) = {}
    /\ \A n \in DOMAIN part_tree \ {RootId} :
          Cardinality(ParentsOf(part_tree, n)) = 1
    /\ \A p \in DOMAIN part_tree :
          \A k \in 1..Len(part_tree[p].children) :
              Named(part_tree, p, part_tree[part_tree[p].children[k]].name)
                  = {k}

\* ---------------------------------------------------- init_from_sequence
\* the tree is as init_from_sequence left it and no part was attached
\* since: right after the call, or right after a pass has begun
JustInit ==
    /\ attached = 0
    /\ \/ pc = "idle" /\ op = "init"
       \/ pc = "loop" /\ path_i = 0 /\ runs = 1

\* the child of root at position k: its name, tag and referent
RootKid(t, k) ==
    [name |-> t[t[RootId].children[k]].name,
     tag |-> t[t[RootId].children[k]].tag,
     id |-> t[t[RootId].children[k]].id,
     leaf |-> t[t[RootId].children[k]].children = <<>>]

\* the children of root with name nm that reference obj
RootKids(t, nm, obj) ==
    {k \in 1..Len(t[RootId].children) :
        RootKid(t, k).name = nm /\ RootKid(t, k).id = obj}

\* C12 as stated: one node i<idx> under root for every surface and one node
\* g<idx> for every gap of the sequence, each referencing its surface or gap.
C12_AsStated ==
    JustInit =>
        /\ \A idx \in 0..(Len(seq_model.ifcs) - 1) :
              Cardinality(RootKids(part_tree, Fmt(<<"i">>, idx),
                                   Ifc(seq_model.ifcs[idx + 1]))) = 1
        /\ \A idx \in 0..(Len(seq_model.gaps) - 1) :
              Cardinality(RootKids(part_tree, Fmt(<<"g">>, idx),
                                   Gap(seq_model.gaps[idx + 1]))) = 1

\* C12: init_from_sequence on an empty tree creates directly under root, in
\* sequence order, the leaves i<idx>, g<idx> for idx = 1 .. len(ifcs)-2 only:
\* one #ifc node per surface other than the object and the image surface,
\* each followed by one #gap node for the gap behind it; there is no node
\* for surface 0, for the last surface or for gap 0. A pass that begins on
\* a tree whose root has children does not call it again.
C12_InnerSurfacesAndGaps ==
    JustInit =>
        /\ Len(part_tree[RootId].children) = 2 * (Len(seq_model.ifcs) - 2)
        /\ Cardinality(DOMAIN part_tree) = 2 * (Len(seq_model.ifcs) - 2) + 1
        /\ \A idx \in 1..(Len(seq_model.ifcs) - 2) :
              /\ RootKid(part_tree, 2 * idx - 1) =
                    [name |-> Fmt(<<"i">>, idx), tag |-> <<"ifc">>,
                     id |-> Ifc(seq_model.ifcs[idx + 1]), leaf |-> TRUE]
              /\ RootKid(part_tree, 2 * idx) =
                    [name |-> Fmt(<<"g">>, idx), tag |-> <<"gap">>,
                     id |-> Gap(seq_model.gaps[idx + 1]), leaf |-> TRUE]

\* C12 witness: a pass has begun on a tree that init_from_sequence had
\* filled before, for a sequence with two inner surfaces
C12_Witness ==
    /\ JustInit /\ pc = "loop" /\ op = "init"
    /\ Len(seq_model.ifcs) = 4
    /\ Len(part_tree[RootId].children) = 4

\* ----------------------------------------------------------- tag queries
\* the tag of node n and the filter have a marker in common
Intersects(t, n, tag) == Range(t[n].tag) \cap Range(tag) # {}

\* C13: nodes_with_tag(filter) returns, in pre-order, exactly the nodes that
\* carry a marker equal to one of the markers of the filter, each once, and
\* no node whose markers are disjoint from the filter's.
C13_ExactMarkers ==
    op = "nodes" =>
        LET carries(n) == Intersects(part_tree, n, snap.tag)
        IN snap.res = SelectSeq(PreOrderIter(part_tree, RootId), carries)

\* the nearest node from n upwards whose tag has a marker of the filter
RECURSIVE NearestUp(_, _, _)
NearestUp(t, n, tag) ==
    IF n = NoNode THEN NoNode
    ELSE IF Intersects(t, n, tag) THEN n
    ELSE NearestUp(t, ParentOf(t, n), tag)

\* C14: parent_node(referent, filter) returns the nearest proper ancestor of
\* the node referencing the referent whose tag intersects the filter, never
\* that node itself and never a profile node when the filter is {element};
\* it returns the absent value when no ancestor matches or no node
\* references the referent, and node(referent) is the absent value for an
\* unknown referent.
C14_NearestAncestor ==
    op = "parent" =>
        /\ snap.node = FindById(part_tree, RootId, snap.obj)
        /\ (\A n \in Nodes(part_tree) : part_tree[n].id # snap.obj) =>
              snap.node = NoNode /\ snap.res = NoNode
        /\ snap.node # NoNode =>
              /\ snap.res = NearestUp(part_tree,
                                      ParentOf(part_tree, snap.node), snap.tag)
              /\ snap.res # snap.node
              /\ (snap.tag = <<"element">> /\ snap.res # NoNode) =>
                    "profile" \notin Range(part_tree[snap.res].tag)

\* ------------------------------------------------- restore by name kind
\* the element named by the parent of node n
ParentEle(t, em, n) == EleDict(em, t[ParentOf(t, n)].name)

\* the referent the name of node n stands for
KindReferent(t, em, sm, n) ==
    LET name == t[n].name
    IN IF Prefix(name, 2) \in {<<"d", "i">>, <<"t", "l">>}
       THEN Ifc(ref_ifc(ParentEle(t, em, n)))
       ELSE IF name[1] = "p"
       THEN Profile(At(interface_list(ParentEle(t, em, n)),
                       IntOf(Rest(name)) - 1))
       ELSE IF name[1] = "i" THEN Ifc(At(sm.ifcs, IntOf(Rest(name))))
       ELSE IF name[1] = "g" THEN Gap(At(sm.gaps, IntOf(Rest(name))))
       ELSE Ele(EleDict(em, name).eid)

\* C15: sync_part_tree_on_restore gives every node the referent of its name
\* kind: di<k> / tl<k> the reference interface of the parent's element,
\* p<k> the profile of entry k-1 of the parent element's interface list,
\* i<k> / g<k> seq_model.ifcs[k] / seq_model.gaps[k], any other name the
\* element with that label; no such node is left without a referent.
C15_RestoreByKind ==
    op = "restore" =>
        \A n \in Nodes(part_tree) \ {RootId} :
            /\ part_tree[n].id # NoId
            /\ part_tree[n].id =
                  KindReferent(part_tree, ele_model, seq_model, n)

\* ------------------------------------------------ update and the labels
\* C16: after sync_part_tree_on_update the name of every node whose referent
\* is an element of the element model is that element's current label,
\* whatever the label is (labels beginning with i, g, p, di or tl too): the
\* call completes for every such tree and leaves the names equal to the
\* labels.
C16_ElementNamesAreLabels ==
    /\ pc = "error" => op \in {"new", "init"}
    /\ op \in {"update", "update2"} =>
          \A n \in Nodes(part_tree) :
              part_tree[n].id.t = "ele" =>
                  part_tree[n].name = ele_model[part_tree[n].id.k].label

\* ---------------------------------------------------- labels of a pass
\* the elements of the element model that carry label
Labelled(em, label) == {x \in 1..Len(em) : em[x].label = label}

\* C17: during and after one grouping pass the labels of the emitted parts
\* are pairwise distinct: the dictionary {e.label: e} of restore and update
\* has one entry for each part.
C17_LabelsDistinct ==
    runs <= 1 =>
        \A x \in 1..Len(ele_model) :
            Labelled(ele_model, ele_model[x].label) = {x}

\* C17 witness: a pass has ended that emitted two parts numbered by the
\* running counter and two AirGap parts
C17_Witness ==
    /\ Done
    /\ Cardinality(OfCls(ele_model, "Element") \cup OfCls(ele_model, "Mirror")
                     \cup OfCls(ele_model, "ThinElement")
                     \cup OfCls(ele_model, "CementedElement")) >= 2
    /\ Cardinality(OfCls(ele_model, "AirGap")) >= 2

\* ------------------------------------------------ the pending list, eles
\* the parts process_airgap emits for the surface itself
SurfaceParts(em) ==
    OfCls(em, "Mirror") \cup OfCls(em, "ThinElement")
        \cup OfCls(em, "DummyInterface")

\* C18: at every iteration of the pass with index i > 0 eles is empty
\* exactly when the gap before surface i is air; Mirror, ThinElement and
\* DummyInterface parts, which only process_airgap emits, exist only for
\* surfaces with air before and behind.
C18_PendingEmptyIffAir ==
    /\ (pc = "loop" /\ runs = 1 /\ path_i > 0
          /\ path_i < Len(seq_model.ifcs)) =>
            (eles = <<>> <=> IsAir(seq_model, seq_model.gaps[path_i]))
    /\ runs <= 1 =>
          \A x \in SurfaceParts(ele_model) :
              /\ Len(ele_model[x].idxs) = 1
              /\ ele_model[x].idxs[1] \in AirBounded(seq_model)
              /\ ele_model[x].ifcs =
                    <<seq_model.ifcs[ele_model[x].idxs[1] + 1]>>

\* C18 witness: the pass is inside a non-air run, with surfaces pending,
\* after it emitted a part for an air-bounded surface
C18_Witness ==
    /\ pc = "loop" /\ runs = 1 /\ path_i > 0
    /\ eles # <<>>
    /\ SurfaceParts(ele_model) # {}

\* ------------------------------------------------- every leaf in a part
\* no reflecting interface has a non-air gap behind it
NoBuried(sm) ==
    \A j \in 1..Len(sm.gaps) :
        sm.interact_mode[sm.ifcs[j]] = "reflect" => IsAir(sm, sm.gaps[j])

\* the interfaces and gaps init_from_sequence creates nodes for
InitObjects(sm) ==
    {Ifc(sm.ifcs[k + 1]) : k \in 1..(Len(sm.ifcs) - 2)}
        \cup {Gap(sm.gaps[k + 1]) : k \in 1..(Len(sm.ifcs) - 2)}

\* the default filter of parent_node
DefaultFilter == <<"element", "airgap", "dummyifc">>

\* C19: after one pass from the empty tree over a well-formed sequence
\* without buried reflector no interface or gap node is a direct child of
\* root: every interface and gap that init_from_sequence created a node for
\* is referenced by exactly one node, and parent_node with the default
\* filter returns a part node for it.
C19_EveryLeafInAPart ==
    (Done /\ NoBuried(seq_model)) =>
        /\ \A k \in 1..Len(part_tree[RootId].children) :
              RootKid(part_tree, k).id.t \notin {"ifc", "gap"}
        /\ \A obj \in InitObjects(seq_model) :
              /\ Cardinality({n \in Nodes(part_tree) :
                                 part_tree[n].id = obj}) = 1
              /\ parent_node(part_tree, obj, DefaultFilter)
                    \in PartNodes(part_tree)

\* C19 witness: a pass over a sequence without buried reflector has ended
\* with a Lens or CementedElement and a part for an air-bounded surface
C19_Witness ==
    /\ Done /\ NoBuried(seq_model)
    /\ OfCls(ele_model, "Element") \cup OfCls(ele_model, "CementedElement")
          # {}
    /\ SurfaceParts(ele_model) # {}

\* ---------------------------------------------------------------- WvlSpec
\* C20: after construction and after any sequence of set_from_list and add
\* calls the lists wavelengths, spectral_wts and render_colors of a WvlSpec
\* have the same length, and an add that did not complete has left all
\* three lists as they were.
C20_ListsSameLength ==
    /\ Len(wvl_spec.wavelengths) = Len(wvl_spec.spectral_wts)
    /\ Len(wvl_spec.wavelengths) = Len(wvl_spec.render_colors)
    /\ wvl_spec.raised => Lists(wvl_spec) = wvl_spec.before

====
